---- MODULE Spec2Model ----
(***************************************************************************)
(* Circuit pool manager of src/src/core/tor_manager.py (class TorManager   *)
(* and dataclass Circuit), with the configuration of                        *)
(* src/src/utils/config.py (TorConfig) that is meant to parameterise it.    *)
(*                                                                           *)
(* Spec      : the pool operations run one at a time (each action is one    *)
(*             whole method call).                                           *)
(* SpecConc  : several threads run get_circuit(False) at once, each thread   *)
(*             advancing one step of the method at a time.                   *)
(* SpecSess  : the session cache and the shutdown of the pool.              *)
(* SpecRetire: circuits reported dead and rotated, with no time passing.    *)
(* SpecAlloc : the operations of Spec with the control channel up or down   *)
(*             for a whole call.                                            *)
(* SpecRace  : the threads of SpecConc next to callers that report circuits *)
(*             dead and rotate the pool.                                    *)
(*                                                                           *)
(* Time is in seconds.  One method call reads time.time() several times;    *)
(* the model gives all reads of one call the same value `now`.              *)
(* Circuit ids come from the control channel (controller.new_circuit()),    *)
(* which hands out ids that were never handed out before: nextId.           *)
(* entry_node / exit_node are informational only and are not modelled.      *)
(***************************************************************************)
EXTENDS Integers, Sequences, FiniteSets, TLC

(***************************************************************************)
(* Bounds of the model.                                                     *)
(***************************************************************************)
\* circuits the control channel hands out at most (later creations fail)
MaxIds == 3
\* the clock stops advancing beyond this value
MaxTime == 602
\* value of time.time() when the pool object is constructed (always > 0)
StartTime == 1
\* get_circuit is not called once an active circuit has this request_count
MaxCount == 3
\* session handles requests.Session() hands out at most
MaxSessions == 2
\* threads that call get_circuit(False) at once (SpecConc)
NWorkers == 3

\* steps by which the clock advances between two calls
TimeSteps == {601}

(***************************************************************************)
(* Literals of the code.                                                    *)
(***************************************************************************)
\* tor_manager.py:53   `if self.age > 600`
HEALTHY_MAX_AGE == 600
\* tor_manager.py:55   `if self.request_count > 100`, scaled down: reaching
\* 101 requests takes 101 calls; only the comparison against it matters.
HEALTHY_MAX_REQUESTS == 1
\* tor_manager.py:211  `elif circuit.request_count > 100`, scaled alike
CLEANUP_MAX_REQUESTS == 1
\* tor_manager.py:129  `min(3, self.max_circuits)`
INITIAL_CIRCUITS == 3

(***************************************************************************)
(* Configuration (TorManager.__init__ arguments and TorConfig fields).      *)
(***************************************************************************)
\* The configurations the pool is built with: max_circuits, circuit_lifetime
\* (seconds; create_tor_manager passes minutes * 60) and
\* TorConfig.max_requests_per_circuit.  The first is the default lifetime and
\* request limit on a pool of one circuit, the second a longer lifetime
\* (TOR_CIRCUIT_LIFETIME=15) and a more generous request limit
\* (TOR_MAX_REQUESTS), the third a shorter lifetime (TOR_CIRCUIT_LIFETIME=5)
\* on a pool larger than the initial set.
Configs ==
    { <<1, 600, HEALTHY_MAX_REQUESTS>>,
      <<2, 900, HEALTHY_MAX_REQUESTS + 1>>,
      <<4, 300, HEALTHY_MAX_REQUESTS>> }

\* CircuitState
FRESH == "fresh"
ACTIVE == "active"
DEGRADED == "degraded"
DEAD == "dead"
CircuitState == {FRESH, ACTIVE, DEGRADED, DEAD}

\* Optional[float] last_used = None
None == -1

VARIABLES
    now,                      \* time.time()
    max_circuits,             \* self.max_circuits
    circuit_lifetime,         \* self.circuit_lifetime
    max_requests_per_circuit, \* TorConfig.max_requests_per_circuit
    controller,               \* self.controller: "none" or "connected"
    tor_process,              \* self._tor_process is set
    circuits,                 \* self.circuits: id -> Circuit
    active_circuits,          \* self.active_circuits: list of ids
    session_cache,            \* self._session_cache: id -> session handle
    nextId,                   \* next id controller.new_circuit() returns
    nextSession,              \* next handle requests.Session() returns
    workers                   \* the threads inside get_circuit (SpecConc)

vars == <<now, max_circuits, circuit_lifetime, max_requests_per_circuit,
          controller, tor_process, circuits, active_circuits, session_cache,
          nextId, nextSession, workers>>

config == <<max_circuits, circuit_lifetime, max_requests_per_circuit>>

(***************************************************************************)
(* Circuit                                                                  *)
(***************************************************************************)
\* Circuit(id, state=FRESH, created_at=time.time()) with the dataclass defaults
NewCircuit(t) ==
    [state |-> FRESH, created_at |-> t, request_count |-> 0, last_used |-> None]

\* an age that never grows
age_Zero(c, t) == 0

\* Circuit.age
age(c, t) == t - c.created_at

\* is_healthy without its request_count test
is_healthy_NoRequestTest(c, t) ==
    IF c.state = DEAD THEN FALSE
    ELSE IF age(c, t) > HEALTHY_MAX_AGE THEN FALSE
    ELSE TRUE

\* Circuit.is_healthy
is_healthy(c, t) ==
    IF c.state = DEAD THEN FALSE
    ELSE IF age(c, t) > HEALTHY_MAX_AGE THEN FALSE
    ELSE IF c.request_count > HEALTHY_MAX_REQUESTS THEN FALSE
    ELSE TRUE

(***************************************************************************)
(* list helpers                                                             *)
(***************************************************************************)
\* `x in list`
InList(x, s) == \E i \in 1..Len(s) : s[i] = x

\* a remove that drops nothing
ListRemove_Keep(s, x) == s

\* list.remove(x): drops the first occurrence of x
ListRemove(s, x) ==
    IF ~InList(x, s) THEN s
    ELSE LET i == CHOOSE j \in 1..Len(s) :
                      s[j] = x /\ \A k \in 1..(j - 1) : s[k] # x
         IN  SubSeq(s, 1, i - 1) \o SubSeq(s, i + 1, Len(s))

\* the ids of a set in increasing order: the registry dict iterates in
\* insertion order, and ids are inserted in increasing order
RECURSIVE SetToSeq(_)
SetToSeq(S) ==
    IF S = {} THEN <<>>
    ELSE LET m == CHOOSE x \in S : \A y \in S : x <= y
         IN  <<m>> \o SetToSeq(S \ {m})

(***************************************************************************)
(* TorManager._cleanup_circuits                                             *)
(***************************************************************************)
\* CleanupCircuit retiring a circuit that is over the request limit
CleanupCircuit_OverLimitDead(c, t, lifetime) ==
    IF c.state = DEAD THEN c
    ELSE IF age(c, t) > lifetime THEN [c EXCEPT !.state = DEAD]
    ELSE IF c.request_count > CLEANUP_MAX_REQUESTS
         THEN [c EXCEPT !.state = DEAD]
    ELSE c

\* the state one circuit leaves the first loop with (lines 205-212)
CleanupCircuit(c, t, lifetime) ==
    IF c.state = DEAD THEN c
    ELSE IF age(c, t) > lifetime THEN [c EXCEPT !.state = DEAD]
    ELSE IF c.request_count > CLEANUP_MAX_REQUESTS
         THEN [c EXCEPT !.state = DEGRADED]
    ELSE c

\* CleanupIsDead collecting only the circuits that were Dead already
CleanupIsDead_StateOnly(c, t, lifetime) ==
    c.state = DEAD

\* whether the first loop appends the circuit to dead_circuits
CleanupIsDead(c, t, lifetime) ==
    c.state = DEAD \/ age(c, t) > lifetime

\* a second loop that empties the active list
RemoveEach_All(act, dead) == <<>>

\* the second loop (lines 216-218): each id of dead_circuits leaves the
\* active list if it is in it
RECURSIVE RemoveEach(_, _)
RemoveEach(act, dead) ==
    IF dead = <<>> THEN act
    ELSE RemoveEach(ListRemove(act, Head(dead)), Tail(dead))

\* _cleanup_circuits without its second loop: dead ids stay in the list
cleanup_circuits_NoRemoval(circs, act, t, lifetime) ==
    [circuits |-> [id \in DOMAIN circs |-> CleanupCircuit(circs[id], t, lifetime)],
     active_circuits |-> act]

\* _cleanup_circuits at time t: the registry and the active list it leaves
cleanup_circuits(circs, act, t, lifetime) ==
    LET dead_circuits ==
            SetToSeq({id \in DOMAIN circs : CleanupIsDead(circs[id], t, lifetime)})
    IN  [circuits |-> [id \in DOMAIN circs |-> CleanupCircuit(circs[id], t, lifetime)],
         active_circuits |-> RemoveEach(act, dead_circuits)]

(***************************************************************************)
(* TorManager._create_circuit, on a controller that answers                 *)
(***************************************************************************)
\* the registry with the new Circuit stored under id (lines 142-150)
RegistryAdd(circs, id, t) ==
    [k \in DOMAIN circs \cup {id} |->
        IF k = id THEN NewCircuit(t) ELSE circs[k]]

(***************************************************************************)
(* TorManager._initialize_circuits                                          *)
(***************************************************************************)
Min(a, b) == IF a <= b THEN a ELSE b

\* InitialCount asking for one circuit too few
InitialCount_Two(maxc) == Min(INITIAL_CIRCUITS - 1, maxc)

\* how many circuits _initialize_circuits asks for
InitialCount(maxc) == Min(INITIAL_CIRCUITS, maxc)

\* iterations i..n of the loop; oks[i] tells whether the i-th
\* controller.new_circuit() answers (TRUE) or raises stem.ControllerError
RECURSIVE InitLoop(_, _, _, _, _)
InitLoop(st, i, n, oks, t) ==
    IF i > n THEN st
    ELSE IF oks[i]
         THEN InitLoop([circuits |-> RegistryAdd(st.circuits, st.nextId, t),
                        active_circuits |-> Append(st.active_circuits, st.nextId),
                        nextId |-> st.nextId + 1],
                       i + 1, n, oks, t)
         ELSE InitLoop(st, i + 1, n, oks, t)

initialize_circuits(circs, act, nid, maxc, oks, t) ==
    InitLoop([circuits |-> circs, active_circuits |-> act, nextId |-> nid],
             1, InitialCount(maxc), oks, t)

\* the outcomes of the three creation attempts the environment may give
CreationOutcomes == [1..INITIAL_CIRCUITS -> BOOLEAN]

\* number of attempts among the first n that succeed
Successes(oks, n) == Cardinality({i \in 1..n : oks[i]})

(***************************************************************************)
(* TorManager.get_circuit                                                   *)
(***************************************************************************)
\* a scan that takes the last eligible circuit of the list
ScanIndex_Last(circs, act, t, require_fresh) ==
    LET eligible(i) ==
            /\ is_healthy(circs[act[i]], t)
            /\ ~(require_fresh /\ circs[act[i]].request_count > 0)
    IN  IF \E i \in 1..Len(act) : eligible(i)
        THEN CHOOSE i \in 1..Len(act) :
                 eligible(i) /\ \A j \in (i + 1)..Len(act) : ~eligible(j)
        ELSE 0

\* the scan (lines 165-176): position in the active list of the first
\* circuit that is healthy and, with require_fresh, unused; 0 if none
ScanIndex(circs, act, t, require_fresh) ==
    LET eligible(i) ==
            /\ is_healthy(circs[act[i]], t)
            /\ ~(require_fresh /\ circs[act[i]].request_count > 0)
    IN  IF \E i \in 1..Len(act) : eligible(i)
        THEN CHOOSE i \in 1..Len(act) :
                 eligible(i) /\ \A j \in 1..(i - 1) : ~eligible(j)
        ELSE 0

\* ScanUse counting the request twice
ScanUse_Twice(c, t) ==
    [c EXCEPT !.request_count = c.request_count + 2,
              !.last_used = t,
              !.state = ACTIVE]

\* lines 172-174
ScanUse(c, t) ==
    [c EXCEPT !.request_count = c.request_count + 1,
              !.last_used = t,
              !.state = ACTIVE]

\* lines 183-184
CreateUse(c, t) ==
    [c EXCEPT !.request_count = 1, !.last_used = t]

\* lines 194-195
RecycleUse(c, t) ==
    [c EXCEPT !.request_count = c.request_count + 1, !.last_used = t]

\* `self.circuits[cid].last_used or 0` (line 191): None and 0 both give 0
RecycleKey(c) == IF c.last_used = None \/ c.last_used = 0 THEN 0 ELSE c.last_used

\* a recycling that takes the most recently used circuit
OldestId_Newest(circs, act) ==
    LET i == CHOOSE j \in 1..Len(act) :
                 /\ \A k \in 1..Len(act) :
                        RecycleKey(circs[act[j]]) >= RecycleKey(circs[act[k]])
                 /\ \A k \in 1..(j - 1) :
                        RecycleKey(circs[act[k]]) < RecycleKey(circs[act[j]])
    IN  act[i]

\* min(self.active_circuits, key=...) (lines 189-192): the first id of the
\* list whose key is minimal
OldestId(circs, act) ==
    LET i == CHOOSE j \in 1..Len(act) :
                 /\ \A k \in 1..Len(act) :
                        RecycleKey(circs[act[j]]) <= RecycleKey(circs[act[k]])
                 /\ \A k \in 1..(j - 1) :
                        RecycleKey(circs[act[k]]) > RecycleKey(circs[act[j]])
    IN  act[i]

\* get_circuit whose creation registers the circuit although the control
\* connection has raised
get_circuit_FailedCreateRegisters(st, maxc, lifetime, t, require_fresh, ok) ==
    LET cl == cleanup_circuits(st.circuits, st.active_circuits, t, lifetime)
        c1 == cl.circuits
        a1 == cl.active_circuits
        i  == ScanIndex(c1, a1, t, require_fresh)
        nid == st.nextId
    IN  IF i # 0
        THEN [circuits |-> [c1 EXCEPT ![a1[i]] = ScanUse(c1[a1[i]], t)],
              active_circuits |-> a1, nextId |-> nid,
              ret |-> a1[i], err |-> "", path |-> "scan"]
        ELSE IF Len(a1) < maxc /\ st.controller = "none"
        THEN [circuits |-> c1, active_circuits |-> a1, nextId |-> nid,
              ret |-> 0, err |-> "AttributeError", path |-> "create"]
        ELSE IF Len(a1) < maxc /\ st.controller = "connected"
        THEN [circuits |-> [RegistryAdd(c1, nid, t) EXCEPT
                               ![nid] = CreateUse(NewCircuit(t), t)],
              active_circuits |-> Append(a1, nid), nextId |-> nid + 1,
              ret |-> nid, err |-> "", path |-> "create"]
        ELSE IF a1 # <<>>
        THEN LET oldest_id == OldestId(c1, a1)
             IN  [circuits |-> [c1 EXCEPT ![oldest_id] = RecycleUse(c1[oldest_id], t)],
                  active_circuits |-> a1, nextId |-> nid,
                  ret |-> oldest_id, err |-> "", path |-> "recycle"]
        ELSE [circuits |-> c1, active_circuits |-> a1, nextId |-> nid,
              ret |-> 0, err |-> "", path |-> "none"]

\* The whole of get_circuit(require_fresh) at time t on a pool in state st
\* (registry, active list, next id, controller).  ok tells whether a
\* controller.new_circuit() call, if one is made, answers or raises
\* stem.ControllerError.  Gives the state left behind, the id of the circuit
\* returned (0 for None) and the exception raised ("" for none): on
\* self.controller = None, new_circuit() raises AttributeError, which
\* _create_circuit does not catch.
get_circuit(st, maxc, lifetime, t, require_fresh, ok) ==
    LET cl == cleanup_circuits(st.circuits, st.active_circuits, t, lifetime)
        c1 == cl.circuits
        a1 == cl.active_circuits
        i  == ScanIndex(c1, a1, t, require_fresh)
        nid == st.nextId
    IN  IF i # 0
        THEN [circuits |-> [c1 EXCEPT ![a1[i]] = ScanUse(c1[a1[i]], t)],
              active_circuits |-> a1, nextId |-> nid,
              ret |-> a1[i], err |-> "", path |-> "scan"]
        ELSE IF Len(a1) < maxc /\ st.controller = "none"
        THEN [circuits |-> c1, active_circuits |-> a1, nextId |-> nid,
              ret |-> 0, err |-> "AttributeError", path |-> "create"]
        ELSE IF Len(a1) < maxc /\ st.controller = "connected" /\ ok
        THEN [circuits |-> [RegistryAdd(c1, nid, t) EXCEPT
                               ![nid] = CreateUse(NewCircuit(t), t)],
              active_circuits |-> Append(a1, nid), nextId |-> nid + 1,
              ret |-> nid, err |-> "", path |-> "create"]
        ELSE IF a1 # <<>>
        THEN LET oldest_id == OldestId(c1, a1)
             IN  [circuits |-> [c1 EXCEPT ![oldest_id] = RecycleUse(c1[oldest_id], t)],
                  active_circuits |-> a1, nextId |-> nid,
                  ret |-> oldest_id, err |-> "", path |-> "recycle"]
        ELSE [circuits |-> c1, active_circuits |-> a1, nextId |-> nid,
              ret |-> 0, err |-> "", path |-> "none"]

\* the pool state get_circuit works on
PoolState ==
    [circuits |-> circuits, active_circuits |-> active_circuits,
     nextId |-> nextId, controller |-> controller]

\* no thread is inside a method
NoWorkers == <<>>

(***************************************************************************)
(* The pool after TorManager.__init__                                       *)
(***************************************************************************)
Init ==
    /\ now = StartTime
    /\ \E cfg \in Configs :
           /\ max_circuits = cfg[1]
           /\ circuit_lifetime = cfg[2]
           /\ max_requests_per_circuit = cfg[3]
    /\ controller = "none"
    /\ tor_process = FALSE
    /\ circuits = <<>>
    /\ active_circuits = <<>>
    /\ session_cache = <<>>
    /\ nextId = 1
    /\ nextSession = 1
    /\ workers = NoWorkers

(***************************************************************************)
(* TorManager.start                                                         *)
(*   "attached"      Controller.from_port and authenticate succeed           *)
(*   "launched"      from_port raises stem.SocketError, a Tor process is     *)
(*                   launched and the second connection succeeds             *)
(*   "launch_failed" from_port raises stem.SocketError and                   *)
(*                   launch_tor_with_config raises: start raises before       *)
(*                   anything is assigned                                    *)
(***************************************************************************)
StartOutcomes == {"attached", "launched", "launch_failed"}

Start(outcome, oks) ==
    /\ outcome \in StartOutcomes
    /\ IF outcome = "launch_failed"
       THEN /\ oks = [i \in 1..INITIAL_CIRCUITS |-> FALSE]
            /\ UNCHANGED <<controller, tor_process, circuits, active_circuits, nextId>>
       ELSE /\ Successes(oks, InitialCount(max_circuits)) <= MaxIds + 1 - nextId
            /\ LET st == initialize_circuits(circuits, active_circuits, nextId,
                                             max_circuits, oks, now)
               IN  /\ controller' = "connected"
                   /\ tor_process' = (tor_process \/ outcome = "launched")
                   /\ circuits' = st.circuits
                   /\ active_circuits' = st.active_circuits
                   /\ nextId' = st.nextId
    /\ UNCHANGED <<now, config, session_cache, nextSession, workers>>

(***************************************************************************)
(* TorManager.get_circuit                                                   *)
(***************************************************************************)
\* the bounds allow another get_circuit call
GetAllowed(ok) ==
    /\ \A i \in 1..Len(active_circuits) :
           circuits[active_circuits[i]].request_count < MaxCount
    /\ ok => nextId <= MaxIds

GetCircuit(require_fresh, ok) ==
    /\ GetAllowed(ok)
    /\ LET r == get_circuit(PoolState, max_circuits, circuit_lifetime, now,
                            require_fresh, ok)
       IN  /\ circuits' = r.circuits
           /\ active_circuits' = r.active_circuits
           /\ nextId' = r.nextId
    /\ UNCHANGED <<now, config, controller, tor_process, session_cache,
                   nextSession, workers>>

(***************************************************************************)
(* TorManager._cleanup_circuits, run on its own                             *)
(***************************************************************************)
CleanupCircuits ==
    /\ LET cl == cleanup_circuits(circuits, active_circuits, now, circuit_lifetime)
       IN  /\ circuits' = cl.circuits
           /\ active_circuits' = cl.active_circuits
    /\ UNCHANGED <<now, config, controller, tor_process, session_cache,
                   nextId, nextSession, workers>>

(***************************************************************************)
(* TorManager.mark_circuit_dead                                             *)
(***************************************************************************)
\* mark_circuit_dead that registers a Dead record for an unknown id
mark_circuit_dead_Registers(st, circuit_id) ==
    [circuits |->
         [k \in DOMAIN st.circuits \cup {circuit_id} |->
             IF k = circuit_id
             THEN [state |-> DEAD, created_at |-> 0, request_count |-> 0,
                   last_used |-> None]
             ELSE st.circuits[k]],
     active_circuits |-> ListRemove(st.active_circuits, circuit_id)]

\* mark_circuit_dead that leaves the id in the active list
mark_circuit_dead_KeepsActive(st, circuit_id) ==
    IF circuit_id \in DOMAIN st.circuits
    THEN [circuits |-> [st.circuits EXCEPT ![circuit_id].state = DEAD],
          active_circuits |-> st.active_circuits]
    ELSE [circuits |-> st.circuits, active_circuits |-> st.active_circuits]

\* lines 291-294
mark_circuit_dead(st, circuit_id) ==
    IF circuit_id \in DOMAIN st.circuits
    THEN [circuits |-> [st.circuits EXCEPT ![circuit_id].state = DEAD],
          active_circuits |->
              IF InList(circuit_id, st.active_circuits)
              THEN ListRemove(st.active_circuits, circuit_id)
              ELSE st.active_circuits]
    ELSE [circuits |-> st.circuits, active_circuits |-> st.active_circuits]

MarkCircuitDead(circuit_id) ==
    /\ LET r == mark_circuit_dead(PoolState, circuit_id)
       IN  /\ circuits' = r.circuits
           /\ active_circuits' = r.active_circuits
    /\ UNCHANGED <<now, config, controller, tor_process, session_cache,
                   nextId, nextSession, workers>>

(***************************************************************************)
(* TorManager.rotate_all_circuits                                           *)
(***************************************************************************)
\* the loop that marks nothing
MarkEach_None(st, ids) == st

\* the loop of lines 301-302 over the ids of the registry
RECURSIVE MarkEach(_, _)
MarkEach(st, ids) ==
    IF ids = <<>> THEN st
    ELSE LET r == mark_circuit_dead(st, Head(ids))
         IN  MarkEach([st EXCEPT !.circuits = r.circuits,
                                 !.active_circuits = r.active_circuits],
                      Tail(ids))

\* a cache that is not cleared
SessionCacheClear_Keep(cache) == cache

\* line 305: self._session_cache.clear()
SessionCacheClear(cache) == <<>>

\* The pool and the cache rotate_all_circuits leaves.  On
\* self.controller = None the first self.controller.new_circuit() raises
\* AttributeError, after the circuits were marked and the cache was cleared.
rotate_all_circuits(st, cache, maxc, oks, t) ==
    LET marked == MarkEach(st, SetToSeq(DOMAIN st.circuits))
        created == initialize_circuits(marked.circuits, marked.active_circuits,
                                       st.nextId, maxc, oks, t)
    IN  IF st.controller = "none" /\ InitialCount(maxc) > 0
        THEN [circuits |-> marked.circuits,
              active_circuits |-> marked.active_circuits,
              nextId |-> st.nextId,
              session_cache |-> SessionCacheClear(cache),
              err |-> "AttributeError"]
        ELSE [circuits |-> created.circuits,
              active_circuits |-> created.active_circuits,
              nextId |-> created.nextId,
              session_cache |-> SessionCacheClear(cache),
              err |-> ""]

\* the bounds allow a rotation whose creation attempts end as oks says
RotateAllowed(oks) ==
    /\ controller = "connected"
         => Successes(oks, InitialCount(max_circuits)) <= MaxIds + 1 - nextId
    /\ controller # "connected" => oks = [i \in 1..INITIAL_CIRCUITS |-> FALSE]

RotateAllCircuits(oks) ==
    /\ RotateAllowed(oks)
    /\ LET r == rotate_all_circuits(PoolState, session_cache, max_circuits,
                                    oks, now)
       IN  /\ circuits' = r.circuits
           /\ active_circuits' = r.active_circuits
           /\ nextId' = r.nextId
           /\ session_cache' = r.session_cache
    /\ UNCHANGED <<now, config, controller, tor_process, nextSession, workers>>

(***************************************************************************)
(* TorManager.get_http_session                                              *)
(*   circuit_id = 0: called without a circuit                               *)
(***************************************************************************)
\* a lookup that always stores a new session
SessionCacheAdd_Always(cache, id, h) ==
    [k \in DOMAIN cache \cup {id} |-> IF k = id THEN h ELSE cache[k]]

\* lines 229-250: the cache after the lookup for id, h being the handle a
\* new requests.Session() would get
SessionCacheAdd(cache, id, h) ==
    IF id \in DOMAIN cache THEN cache
    ELSE [k \in DOMAIN cache \cup {id} |-> IF k = id THEN h ELSE cache[k]]

\* the circuit the session is for: the one passed, or the outcome of
\* get_circuit() (lines 223-226)
SessionCircuit(circuit_id, ok) ==
    IF circuit_id = 0
    THEN get_circuit(PoolState, max_circuits, circuit_lifetime, now, FALSE, ok)
    ELSE [circuits |-> circuits, active_circuits |-> active_circuits,
          nextId |-> nextId, ret |-> circuit_id, err |-> "", path |-> ""]

\* the exception get_http_session raises ("" for none)
SessionError(r) ==
    IF r.err # "" THEN r.err
    ELSE IF r.ret = 0 THEN "RuntimeError"
    ELSE ""

\* The outcome of get_http_session on the pool st with the cache `cache`,
\* h being the handle a new requests.Session() would get: the pool and the
\* cache it leaves, the session it yields (0 for none) and what it raises.
get_http_session(st, cache, h, maxc, lifetime, t, circuit_id, ok) ==
    LET r == IF circuit_id = 0
             THEN get_circuit(st, maxc, lifetime, t, FALSE, ok)
             ELSE [circuits |-> st.circuits,
                   active_circuits |-> st.active_circuits,
                   nextId |-> st.nextId, ret |-> circuit_id, err |-> "",
                   path |-> ""]
        e == SessionError(r)
        after == IF e # "" THEN cache ELSE SessionCacheAdd(cache, r.ret, h)
    IN  [circuits |-> r.circuits, active_circuits |-> r.active_circuits,
         nextId |-> r.nextId, session_cache |-> after,
         session |-> IF e # "" THEN 0 ELSE after[r.ret],
         created |-> e = "" /\ r.ret \notin DOMAIN cache,
         circuit |-> r.ret, err |-> e]

GetHttpSession(circuit_id, ok) ==
    /\ circuit_id \in DOMAIN circuits \cup {0}
    /\ circuit_id = 0 => GetAllowed(ok)
    /\ circuit_id # 0 => ok = FALSE
    /\ LET r == get_http_session(PoolState, session_cache, nextSession,
                                 max_circuits, circuit_lifetime, now,
                                 circuit_id, ok)
       IN  /\ r.created => nextSession <= MaxSessions
           /\ circuits' = r.circuits
           /\ active_circuits' = r.active_circuits
           /\ nextId' = r.nextId
           /\ session_cache' = r.session_cache
           /\ nextSession' = IF r.created THEN nextSession + 1 ELSE nextSession
    /\ UNCHANGED <<now, config, controller, tor_process, workers>>

(***************************************************************************)
(* TorManager.get_stats                                                     *)
(***************************************************************************)
\* get_stats that reports the active circuits as the healthy ones
get_stats_HealthyIsActive ==
    [total_circuits |-> Cardinality(DOMAIN circuits),
     active_circuits |-> Len(active_circuits),
     healthy_circuits |-> Len(active_circuits),
     sessions_cached |-> Cardinality(DOMAIN session_cache)]

get_stats ==
    [total_circuits |-> Cardinality(DOMAIN circuits),
     active_circuits |-> Len(active_circuits),
     healthy_circuits |->
         Cardinality({id \in DOMAIN circuits : is_healthy(circuits[id], now)}),
     sessions_cached |-> Cardinality(DOMAIN session_cache)]

GetStats ==
    UNCHANGED vars

(***************************************************************************)
(* TorManager.stop                                                          *)
(***************************************************************************)
\* stop that keeps the control connection
stop_KeepConnection(cache, ctl, proc) ==
    [session_cache |-> SessionCacheClear(cache), controller |-> ctl,
     tor_process |-> proc]

\* what stop() leaves of the cache, the control connection and
\* self._tor_process (terminated and waited for, the attribute is kept)
stop(cache, ctl, proc) ==
    [session_cache |-> SessionCacheClear(cache), controller |-> "none",
     tor_process |-> proc]

Stop ==
    /\ LET r == stop(session_cache, controller, tor_process)
       IN  /\ session_cache' = r.session_cache
           /\ controller' = r.controller
           /\ tor_process' = r.tor_process
    /\ UNCHANGED <<now, config, circuits, active_circuits,
                   nextId, nextSession, workers>>

(***************************************************************************)
(* time passes between two calls                                            *)
(***************************************************************************)
Tick(d) ==
    /\ now + d <= MaxTime
    /\ now' = now + d
    /\ UNCHANGED <<config, controller, tor_process, circuits, active_circuits,
                   session_cache, nextId, nextSession, workers>>

(***************************************************************************)
(* Spec: the pool operations, one call at a time, on a daemon that is       *)
(* already running (start attaches to it or fails)                          *)
(***************************************************************************)
Next ==
    \/ \E outcome \in {"attached", "launch_failed"}, oks \in CreationOutcomes :
           Start(outcome, oks)
    \/ \E require_fresh \in BOOLEAN, ok \in BOOLEAN : GetCircuit(require_fresh, ok)
    \/ CleanupCircuits
    \/ \E circuit_id \in 1..nextId : MarkCircuitDead(circuit_id)
    \/ \E oks \in CreationOutcomes : RotateAllCircuits(oks)
    \/ \E d \in TimeSteps : Tick(d)

Spec == Init /\ [][Next]_vars

(***************************************************************************)
(* SpecSess: the pool with its session cache and its shutdown, on a host    *)
(* with no daemon running, so that start launches one: start,               *)
(* get_http_session with a circuit and without one (which calls             *)
(* get_circuit()), rotate_all_circuits, get_stats and stop, one call at a   *)
(* time and with no time passing between the calls.  The creation attempts  *)
(* of one start or rotation all succeed or all fail.                        *)
(***************************************************************************)
InitSess == Init

SessOutcomes == {[i \in 1..INITIAL_CIRCUITS |-> b] : b \in BOOLEAN}

NextSess ==
    \/ \E oks \in SessOutcomes : Start("launched", oks)
    \/ \E circuit_id \in 0..MaxIds, ok \in BOOLEAN : GetHttpSession(circuit_id, ok)
    \/ \E oks \in SessOutcomes : RotateAllCircuits(oks)
    \/ GetStats
    \/ Stop

SpecSess == InitSess /\ [][NextSess]_vars

(***************************************************************************)
(* SpecRetire: circuits handed out, reported dead by the caller and         *)
(* rotated, on a daemon that is already running and with no time passing    *)
(* between the calls: start, get_circuit, mark_circuit_dead and             *)
(* rotate_all_circuits, one call at a time.                                 *)
(***************************************************************************)
InitRetire == Init

NextRetire ==
    \/ \E oks \in CreationOutcomes : Start("attached", oks)
    \/ \E require_fresh \in BOOLEAN, ok \in BOOLEAN : GetCircuit(require_fresh, ok)
    \/ \E circuit_id \in 1..nextId : MarkCircuitDead(circuit_id)
    \/ \E oks \in CreationOutcomes : RotateAllCircuits(oks)

SpecRetire == InitRetire /\ [][NextRetire]_vars

(***************************************************************************)
(* SpecAlloc: the operations of Spec on a daemon that start always reaches,  *)
(* where the creation attempts of one start or rotation all succeed or all  *)
(* fail (the control channel is up or down for the whole call).             *)
(***************************************************************************)
InitAlloc == Init

NextAlloc ==
    \/ \E oks \in SessOutcomes : Start("attached", oks)
    \/ \E require_fresh \in BOOLEAN, ok \in BOOLEAN : GetCircuit(require_fresh, ok)
    \/ CleanupCircuits
    \/ \E circuit_id \in 1..nextId : MarkCircuitDead(circuit_id)
    \/ \E oks \in SessOutcomes : RotateAllCircuits(oks)
    \/ \E d \in TimeSteps : Tick(d)

SpecAlloc == InitAlloc /\ [][NextAlloc]_vars

(***************************************************************************)
(* SpecConc: NWorkers threads call get_circuit(False) on a started pool.    *)
(* The method takes no lock.  A thread may be preempted between any two     *)
(* bytecodes and gives up the interpreter during the control-channel round  *)
(* trip of controller.new_circuit(); the model lets threads interleave at   *)
(* these points only:                                                      *)
(*   "ready"         before the call                                        *)
(*   "scan"          after _cleanup_circuits (line 162)                     *)
(*   "scan_store"    circuit chosen by the scan, request_count read, not    *)
(*                   yet stored (line 172 is a read, an add and a store)    *)
(*   "create"        len(active_circuits) < max_circuits seen (line 179),   *)
(*                   new_circuit() not yet answered (line 137)              *)
(*   "recycle"       creation not possible or failed (line 188)             *)
(*   "recycle_store" oldest circuit chosen, request_count read, not yet     *)
(*                   stored (line 194)                                      *)
(*   "done"          the call has returned ret (0 for None) or raised err   *)
(***************************************************************************)
Workers == 1..NWorkers

WorkerReady == [pc |-> "ready", cid |-> 0, tmp |-> 0, ret |-> 0, err |-> ""]

InitConc ==
    /\ now = StartTime
    /\ \E cfg \in Configs :
           /\ max_circuits = cfg[1]
           /\ circuit_lifetime = cfg[2]
           /\ max_requests_per_circuit = cfg[3]
    /\ controller = "none"
    /\ tor_process = FALSE
    /\ circuits = <<>>
    /\ active_circuits = <<>>
    /\ session_cache = <<>>
    /\ nextId = 1
    /\ nextSession = 1
    /\ workers = [w \in Workers |-> WorkerReady]

AllReady == \A w \in Workers : workers[w].pc = "ready"

\* start(), once, before the threads call
StartConc(oks) ==
    /\ AllReady
    /\ controller = "none"
    /\ Start("attached", oks)

\* time passes before the threads call
TickConc(d) ==
    /\ AllReady
    /\ Tick(d)

\* line 162
WorkerCleanup(w) ==
    /\ workers[w].pc = "ready"
    /\ controller = "connected"
    /\ LET cl == cleanup_circuits(circuits, active_circuits, now, circuit_lifetime)
       IN  /\ circuits' = cl.circuits
           /\ active_circuits' = cl.active_circuits
    /\ workers' = [workers EXCEPT ![w].pc = "scan"]
    /\ UNCHANGED <<now, config, controller, tor_process, session_cache,
                   nextId, nextSession>>

\* lines 165-172 (up to the read of request_count), else line 179, else 188
WorkerScan(w) ==
    /\ workers[w].pc = "scan"
    /\ LET i == ScanIndex(circuits, active_circuits, now, FALSE)
       IN  workers' =
               IF i # 0
               THEN [workers EXCEPT
                        ![w].pc = "scan_store",
                        ![w].cid = active_circuits[i],
                        ![w].tmp = circuits[active_circuits[i]].request_count]
               ELSE IF Len(active_circuits) < max_circuits
               THEN [workers EXCEPT ![w].pc = "create"]
               ELSE [workers EXCEPT ![w].pc = "recycle"]
    /\ UNCHANGED <<now, config, controller, tor_process, circuits,
                   active_circuits, session_cache, nextId, nextSession>>

\* lines 172-176: the store of request_count, last_used, state; return
WorkerScanStore(w) ==
    /\ workers[w].pc = "scan_store"
    /\ LET cid == workers[w].cid
       IN  circuits' = [circuits EXCEPT
                           ![cid].request_count = workers[w].tmp + 1,
                           ![cid].last_used = now,
                           ![cid].state = ACTIVE]
    /\ workers' = [workers EXCEPT ![w].pc = "done", ![w].ret = workers[w].cid]
    /\ UNCHANGED <<now, config, controller, tor_process, active_circuits,
                   session_cache, nextId, nextSession>>

\* lines 180-185 with _create_circuit: new_circuit() answers (ok) and the
\* circuit is registered and returned, or raises and the thread recycles
WorkerCreate(w, ok) ==
    /\ workers[w].pc = "create"
    /\ ok => nextId <= MaxIds
    /\ IF ok
       THEN /\ circuits' = [RegistryAdd(circuits, nextId, now) EXCEPT
                               ![nextId] = CreateUse(NewCircuit(now), now)]
            /\ active_circuits' = Append(active_circuits, nextId)
            /\ nextId' = nextId + 1
            /\ workers' = [workers EXCEPT ![w].pc = "done", ![w].ret = nextId]
       ELSE /\ workers' = [workers EXCEPT ![w].pc = "recycle"]
            /\ UNCHANGED <<circuits, active_circuits, nextId>>
    /\ UNCHANGED <<now, config, controller, tor_process, session_cache, nextSession>>

\* lines 188-194 (up to the read of request_count), else line 198
WorkerRecycle(w) ==
    /\ workers[w].pc = "recycle"
    /\ workers' =
           IF active_circuits # <<>>
           THEN LET oldest_id == OldestId(circuits, active_circuits)
                IN  [workers EXCEPT
                        ![w].pc = "recycle_store",
                        ![w].cid = oldest_id,
                        ![w].tmp = circuits[oldest_id].request_count]
           ELSE [workers EXCEPT ![w].pc = "done", ![w].ret = 0]
    /\ UNCHANGED <<now, config, controller, tor_process, circuits,
                   active_circuits, session_cache, nextId, nextSession>>

\* lines 194-196: the store of request_count and last_used; return
WorkerRecycleStore(w) ==
    /\ workers[w].pc = "recycle_store"
    /\ LET cid == workers[w].cid
       IN  circuits' = [circuits EXCEPT
                           ![cid].request_count = workers[w].tmp + 1,
                           ![cid].last_used = now]
    /\ workers' = [workers EXCEPT ![w].pc = "done", ![w].ret = workers[w].cid]
    /\ UNCHANGED <<now, config, controller, tor_process, active_circuits,
                   session_cache, nextId, nextSession>>

NextConc ==
    \/ \E oks \in CreationOutcomes : StartConc(oks)
    \/ \E d \in TimeSteps : TickConc(d)
    \/ \E w \in Workers : WorkerCleanup(w)
    \/ \E w \in Workers : WorkerScan(w)
    \/ \E w \in Workers : WorkerScanStore(w)
    \/ \E w \in Workers, ok \in BOOLEAN : WorkerCreate(w, ok)
    \/ \E w \in Workers : WorkerRecycle(w)
    \/ \E w \in Workers : WorkerRecycleStore(w)

SpecConc == InitConc /\ [][NextConc]_vars

(***************************************************************************)
(* SpecRace: the threads of SpecConc inside get_circuit(False) while other  *)
(* callers report circuits dead and rotate the pool.  mark_circuit_dead and *)
(* rotate_all_circuits take no lock either; the model runs each of them as  *)
(* one step between two steps of the threads inside get_circuit.  No time   *)
(* passes, and the creation attempts of one start or rotation all succeed   *)
(* or all fail.                                                             *)
(***************************************************************************)
InitRace == InitConc

NextRace ==
    \/ \E oks \in SessOutcomes : StartConc(oks)
    \/ \E w \in Workers : WorkerCleanup(w)
    \/ \E w \in Workers : WorkerScan(w)
    \/ \E w \in Workers : WorkerScanStore(w)
    \/ \E w \in Workers, ok \in BOOLEAN : WorkerCreate(w, ok)
    \/ \E w \in Workers : WorkerRecycle(w)
    \/ \E w \in Workers : WorkerRecycleStore(w)
    \/ \E circuit_id \in 1..nextId : MarkCircuitDead(circuit_id)
    \/ \E oks \in SessOutcomes : RotateAllCircuits(oks)

SpecRace == InitRace /\ [][NextRace]_vars

(***************************************************************************)
(* Properties                                                               *)
(***************************************************************************)
\* the outcome of the get_circuit call a GetCircuit(require_fresh, ok) step
\* makes in the current state
Outcome(require_fresh, ok) ==
    get_circuit(PoolState, max_circuits, circuit_lifetime, now, require_fresh, ok)

Registry == DOMAIN circuits

\* the order of the states: Fresh -> Active -> Degraded -> Dead
Rank(state) ==
    CASE state = FRESH -> 0
      [] state = ACTIVE -> 1
      [] state = DEGRADED -> 2
      [] state = DEAD -> 3

\* C1: every circuit a get_circuit call returns, by scan, by on-demand
\* creation or by recycling, has a state other than Dead when it is returned.
C1_ReturnedNotDead ==
    \A require_fresh \in BOOLEAN, ok \in BOOLEAN :
        LET r == Outcome(require_fresh, ok)
        IN  r.ret # 0 =>
                /\ r.ret \in DOMAIN r.circuits
                /\ r.circuits[r.ret].state # DEAD

\* C1 witness: a circuit was handed out again (recycled) after it was marked
\* Degraded, while the registry holds a Dead circuit that was in use before.
C1_Witness ==
    /\ \E id \in Registry :
           /\ circuits[id].state = DEGRADED
           /\ circuits[id].request_count > CLEANUP_MAX_REQUESTS + 1
    /\ \E id \in Registry :
           circuits[id].state = DEAD /\ circuits[id].request_count > 0

\* C3: the active list never holds more than max_circuits ids.
C3_ActiveWithinMax ==
    Len(active_circuits) <= max_circuits

\* C4: no step moves a circuit's state backwards in the order
\* Fresh -> Active -> Degraded -> Dead, and a Dead circuit stays Dead.
C4_StateMonotonic ==
    [][\A id \in Registry :
          /\ id \in DOMAIN circuits'
          /\ Rank(circuits'[id].state) >= Rank(circuits[id].state)
          /\ circuits[id].state = DEAD => circuits'[id].state = DEAD]_vars

\* C4 witness: a Degraded circuit that is still in the active list next to a
\* circuit that was used, died and is out of the list.
C4_Witness ==
    /\ \E i \in 1..Len(active_circuits) :
           circuits[active_circuits[i]].state = DEGRADED
    /\ \E id \in Registry :
           /\ circuits[id].state = DEAD
           /\ circuits[id].last_used # None
           /\ ~InList(id, active_circuits)

\* the health predicate of the specification, on the configured limits
SpecIsHealthy(c, t, lifetimeLimit, requestLimit) ==
    /\ c.state # DEAD
    /\ t - c.created_at <= lifetimeLimit
    /\ c.request_count <= requestLimit

\* C5: is_healthy is true exactly when the circuit is not Dead, its age is
\* within the configured circuit lifetime and its request_count is within the
\* configured per-circuit request limit.
C5_HealthyOnConfiguredLimits ==
    \A id \in Registry :
        is_healthy(circuits[id], now)
            <=> SpecIsHealthy(circuits[id], now, circuit_lifetime,
                              max_requests_per_circuit)

\* circuits that have been handed out
Used == {id \in Registry : circuits[id].request_count > 0}

RECURSIVE SumCounts(_)
SumCounts(S) ==
    IF S = {} THEN 0
    ELSE LET id == CHOOSE x \in S : TRUE
         IN  circuits[id].request_count + SumCounts(S \ {id})

\* every thread's call has returned a circuit
AllReturned ==
    \A w \in Workers : workers[w].pc = "done" /\ workers[w].ret # 0

\* C2: when NWorkers threads have called get_circuit(False) at once on a
\* started pool (all request_counts 0 before) with max_circuits < NWorkers and
\* all calls have returned, the request_counts add up to NWorkers and the
\* increments lie on at most max_circuits circuits.
C2_ConcurrentIncrements ==
    (AllReturned /\ max_circuits < NWorkers) =>
        /\ SumCounts(Registry) = NWorkers
        /\ Cardinality(Used) <= max_circuits

\* no circuit was ever registered
NewPool == Registry = {} /\ active_circuits = <<>>

\* the pool start() leaves when it connects and the creation attempts end as
\* oks says
StartResult(oks) ==
    initialize_circuits(circuits, active_circuits, nextId, max_circuits, oks, now)

\* the circuits of st: all Fresh, unused, never handed out, all active
AllInitial(st) ==
    /\ \A id \in DOMAIN st.circuits :
           /\ st.circuits[id].state = FRESH
           /\ st.circuits[id].request_count = 0
           /\ st.circuits[id].last_used = None
           /\ InList(id, st.active_circuits)
    /\ Len(st.active_circuits) = Cardinality(DOMAIN st.circuits)

\* C6 as claimed: when start() returns on a new pool the registry holds
\* exactly min(3, max_circuits) circuits, each Fresh with request_count 0 and
\* no last_used, each in the active list.
C6_StartCreatesInitialSet ==
    NewPool =>
        \A oks \in CreationOutcomes :
            LET st == StartResult(oks)
            IN  /\ Cardinality(DOMAIN st.circuits) = Min(3, max_circuits)
                /\ AllInitial(st)

\* C6 amended: when start() returns on a new pool the registry holds one
\* circuit for each of the min(3, max_circuits) creation attempts that
\* succeeded, so at most min(3, max_circuits) and exactly that many when no
\* attempt fails; each is Fresh with request_count 0 and no last_used, and in
\* the active list.
C6_StartCreatesSucceeded ==
    NewPool =>
        \A oks \in CreationOutcomes :
            LET st == StartResult(oks)
                n == Cardinality(DOMAIN st.circuits)
            IN  /\ n = Cardinality({i \in 1..Min(3, max_circuits) : oks[i]})
                /\ n <= Min(3, max_circuits)
                /\ (\A i \in 1..Min(3, max_circuits) : oks[i])
                       => n = Min(3, max_circuits)
                /\ AllInitial(st)

\* C6 witness: the pool of max_circuits = 4 right after start(): exactly
\* three circuits, all Fresh, unused and active.
C6_Witness ==
    /\ max_circuits = 4
    /\ Cardinality(Registry) = 3
    /\ Len(active_circuits) = 3
    /\ \A id \in Registry :
           /\ circuits[id].state = FRESH
           /\ circuits[id].request_count = 0
           /\ circuits[id].last_used = None
           /\ circuits[id].created_at = now

\* the pool as start() has just left it: every circuit Fresh, unused,
\* created now and active
FreshlyStarted ==
    /\ active_circuits # <<>>
    /\ \A id \in Registry :
           /\ circuits[id].state = FRESH
           /\ circuits[id].request_count = 0
           /\ circuits[id].last_used = None
           /\ circuits[id].created_at = now
           /\ InList(id, active_circuits)

\* C7: a get_circuit call that returns a circuit raises that circuit's
\* request_count by one and sets its last_used to the current time; every
\* other circuit keeps its request_count, last_used and created_at, and its
\* state unless cleanup's expiry or request rule applies to it; no record
\* other than the returned one is added.  On a freshly started pool the
\* returned circuit has request_count 1 and state Active and the others stay
\* Fresh.
C7_GetCircuitFrame ==
    \A require_fresh \in BOOLEAN, ok \in BOOLEAN :
        LET r == Outcome(require_fresh, ok)
            before == IF r.ret \in Registry
                      THEN circuits[r.ret].request_count ELSE 0
        IN  r.ret # 0 =>
            /\ r.circuits[r.ret].request_count = before + 1
            /\ r.circuits[r.ret].last_used = now
            /\ r.ret \in Registry =>
                   r.circuits[r.ret].created_at = circuits[r.ret].created_at
            /\ \A id \in DOMAIN r.circuits \ {r.ret} :
                   /\ id \in Registry
                   /\ r.circuits[id].request_count = circuits[id].request_count
                   /\ r.circuits[id].last_used = circuits[id].last_used
                   /\ r.circuits[id].created_at = circuits[id].created_at
                   /\ \/ r.circuits[id].state = circuits[id].state
                      \/ /\ now - circuits[id].created_at > circuit_lifetime
                         /\ r.circuits[id].state = DEAD
                      \/ /\ circuits[id].request_count > CLEANUP_MAX_REQUESTS
                         /\ r.circuits[id].state = DEGRADED
            /\ FreshlyStarted =>
                   /\ r.circuits[r.ret].request_count = 1
                   /\ r.circuits[r.ret].state = ACTIVE
                   /\ \A id \in DOMAIN r.circuits \ {r.ret} :
                          r.circuits[id].state = FRESH

\* C7 witness: the pool of three circuits after one get_circuit call: the
\* first circuit Active with request_count 1 and last_used now, the other two
\* Fresh and unused.
C7_Witness ==
    /\ Cardinality(Registry) = 3
    /\ active_circuits = <<1, 2, 3>>
    /\ circuits[1].state = ACTIVE
    /\ circuits[1].request_count = 1
    /\ circuits[1].last_used = now
    /\ \A id \in {2, 3} :
           /\ circuits[id].state = FRESH
           /\ circuits[id].request_count = 0
           /\ circuits[id].last_used = None

\* C8: when cleanup has run, on its own or at the start of get_circuit, every
\* circuit whose age exceeded circuit_lifetime is Dead and out of the active
\* list, whatever its state and request_count were.
C8_CleanupKillsExpired ==
    \A id \in Registry :
        now - circuits[id].created_at > circuit_lifetime =>
            /\ LET cl == cleanup_circuits(circuits, active_circuits, now,
                                          circuit_lifetime)
               IN  /\ cl.circuits[id].state = DEAD
                   /\ ~InList(id, cl.active_circuits)
            /\ \A require_fresh \in BOOLEAN, ok \in BOOLEAN :
                   LET r == Outcome(require_fresh, ok)
                   IN  /\ r.circuits[id].state = DEAD
                       /\ ~InList(id, r.active_circuits)

\* C8 witness: three expired circuits, one never used, one used within the
\* request limit and one used beyond it, all Dead, and an empty active list.
C8_Witness ==
    /\ active_circuits = <<>>
    /\ \A id \in Registry :
           /\ circuits[id].state = DEAD
           /\ now - circuits[id].created_at > circuit_lifetime
    /\ \E id \in Registry : circuits[id].request_count = 0
    /\ \E id \in Registry :
           /\ circuits[id].request_count > 0
           /\ circuits[id].request_count <= CLEANUP_MAX_REQUESTS
    /\ \E id \in Registry : circuits[id].request_count > CLEANUP_MAX_REQUESTS

\* the pool of one circuit whose only active circuit is alive, within its
\* lifetime and past the request limit the code applies
SingleOverLimit ==
    /\ max_circuits = 1
    /\ Len(active_circuits) = 1
    /\ circuits[active_circuits[1]].state # DEAD
    /\ now - circuits[active_circuits[1]].created_at <= circuit_lifetime
    /\ circuits[active_circuits[1]].request_count > CLEANUP_MAX_REQUESTS

\* C9: with max_circuits = 1 and the single circuit within its lifetime and
\* past the request limit, get_circuit(False) raises nothing and returns that
\* same circuit, which is then Degraded and still the only active circuit.
C9_DegradedStillReturned ==
    SingleOverLimit =>
        \A ok \in BOOLEAN :
            LET r == Outcome(FALSE, ok)
            IN  /\ r.ret = active_circuits[1]
                /\ r.err = ""
                /\ r.circuits[r.ret].state = DEGRADED
                /\ r.active_circuits = active_circuits

\* C9 witness: the single circuit of a pool of one, Degraded and handed out
\* again after it had passed the request limit.
C9_Witness ==
    /\ max_circuits = 1
    /\ Len(active_circuits) = 1
    /\ circuits[active_circuits[1]].state = DEGRADED
    /\ circuits[active_circuits[1]].request_count > CLEANUP_MAX_REQUESTS + 1
    /\ circuits[active_circuits[1]].last_used = now

\* C10: cleanup turns a circuit that is not Dead, within the configured
\* lifetime and over the configured per-circuit request limit into a Degraded
\* circuit and leaves it in the active list; it does not mark a circuit
\* Degraded whose request_count is at or below that limit.
C10_CleanupDegradesOverConfiguredLimit ==
    [][CleanupCircuits =>
          \A id \in Registry :
              /\ ( /\ circuits[id].state # DEAD
                   /\ now - circuits[id].created_at <= circuit_lifetime
                   /\ circuits[id].request_count > max_requests_per_circuit )
                 => /\ circuits'[id].state = DEGRADED
                    /\ InList(id, active_circuits) => InList(id, active_circuits')
              /\ ( /\ circuits[id].state # DEGRADED
                   /\ circuits[id].request_count <= max_requests_per_circuit )
                 => circuits'[id].state # DEGRADED]_vars

\* the outcome of the rotate_all_circuits call a RotateAllCircuits(oks) step
\* makes in the current state
RotateResult(oks) ==
    rotate_all_circuits(PoolState, session_cache, max_circuits, oks, now)

\* every circuit registered before the rotation is Dead and not active in r
PriorRetired(r) ==
    \A id \in Registry :
        /\ r.circuits[id].state = DEAD
        /\ ~InList(id, r.active_circuits)

\* every active circuit of r was created by the rotation
CreatedByRotation(r) ==
    \A i \in 1..Len(r.active_circuits) :
        /\ r.active_circuits[i] \notin Registry
        /\ r.active_circuits[i] \in DOMAIN r.circuits
        /\ r.circuits[r.active_circuits[i]].created_at = now
        /\ r.circuits[r.active_circuits[i]].state = FRESH

\* the outcomes of the creation attempts a start or a rotation makes: an
\* attempt beyond min(3, max_circuits) is not made and has no outcome
AttemptOutcomes ==
    {oks \in CreationOutcomes :
        \A i \in 1..INITIAL_CIRCUITS : i > Min(3, max_circuits) => ~oks[i]}

\* C11 as claimed: when rotate_all_circuits returns, every circuit that was
\* in the registry before the call is Dead and absent from the active list,
\* and the active list holds exactly min(3, max_circuits) circuits, all
\* created by this rotation.
C11_RotateRebuildsInitialSet ==
    \A oks \in AttemptOutcomes :
        LET r == RotateResult(oks)
        IN  r.err = "" =>
                /\ PriorRetired(r)
                /\ Len(r.active_circuits) = Min(3, max_circuits)
                /\ CreatedByRotation(r)

\* C11 amended: when rotate_all_circuits returns, every circuit that was in
\* the registry before the call is Dead and absent from the active list, and
\* the active list holds one circuit for each of the min(3, max_circuits)
\* creation attempts that succeeded, so at most min(3, max_circuits) and
\* exactly that many when no attempt fails, all created by this rotation.
C11_RotateRebuildsSucceeded ==
    \A oks \in AttemptOutcomes :
        LET r == RotateResult(oks)
            n == Len(r.active_circuits)
        IN  r.err = "" =>
                /\ PriorRetired(r)
                /\ n = Cardinality({i \in 1..Min(3, max_circuits) : oks[i]})
                /\ n <= Min(3, max_circuits)
                /\ (\A i \in 1..Min(3, max_circuits) : oks[i])
                       => n = Min(3, max_circuits)
                /\ CreatedByRotation(r)

\* C11 witness: a pool after a rotation: the circuits of before, one of them
\* used, are Dead and out of the active list, which holds min(3,
\* max_circuits) Fresh unused circuits, all with later ids.
C11_Witness ==
    /\ controller = "connected"
    /\ Len(active_circuits) = Min(3, max_circuits)
    /\ \A i \in 1..Len(active_circuits) :
           /\ circuits[active_circuits[i]].state = FRESH
           /\ circuits[active_circuits[i]].request_count = 0
    /\ \E id \in Registry :
           /\ ~InList(id, active_circuits)
           /\ circuits[id].request_count > 0
    /\ \A id \in Registry :
           ~InList(id, active_circuits) =>
               /\ circuits[id].state = DEAD
               /\ \A i \in 1..Len(active_circuits) : id < active_circuits[i]

\* the pool cleanup leaves, of the current state
Cleaned == cleanup_circuits(circuits, active_circuits, now, circuit_lifetime)

\* the outcome of the get_http_session(circuit_id) call a
\* GetHttpSession(circuit_id, ok) step makes in the current state
SessionOutcome(circuit_id, ok) ==
    get_http_session(PoolState, session_cache, nextSession, max_circuits,
                     circuit_lifetime, now, circuit_id, ok)

\* the session handles a cache holds
Handles(cache) == {cache[k] : k \in DOMAIN cache}

\* the outcome of get_http_session(circuit_id) on the pool and the cache the
\* call with the outcome r has left
LookupAfter(r, circuit_id, ok) ==
    get_http_session([circuits |-> r.circuits,
                      active_circuits |-> r.active_circuits,
                      nextId |-> r.nextId, controller |-> controller],
                     r.session_cache, nextSession, max_circuits,
                     circuit_lifetime, now, circuit_id, ok)

\* C12: when rotate_all_circuits has run, the session cache holds no session
\* that was cached before the call, and a session lookup after it never
\* yields a handle created before it: every cached handle is older than the
\* next new one, a rotation leaves an empty cache (also when it raises), and
\* a lookup yields a handle of the cache or a new one, so on the emptied
\* cache a new one.
C12_RotateDropsSessions ==
    /\ \A h \in Handles(session_cache) : h < nextSession
    /\ \A oks \in CreationOutcomes :
           DOMAIN RotateResult(oks).session_cache = {}
    /\ \A circuit_id \in Registry \cup {0} :
           \A ok \in (IF circuit_id = 0 THEN BOOLEAN ELSE {FALSE}) :
               LET l == SessionOutcome(circuit_id, ok)
               IN  l.err = "" =>
                       /\ l.session \in Handles(session_cache) \cup {nextSession}
                       /\ DOMAIN session_cache = {} => l.session = nextSession

\* C12 witness: sessions were cached and dropped by a rotation, and the only
\* session of the cache now is a later one, of a circuit the rotation created.
C12_Witness ==
    /\ controller = "connected"
    /\ nextSession = 3
    /\ \E id \in Registry :
           /\ DOMAIN session_cache = {id}
           /\ session_cache[id] = 2
           /\ circuits[id].state # DEAD
           /\ \A other \in Registry \ {id} :
                  other < id /\ circuits[other].state = DEAD

\* the pool mark_circuit_dead(circuit_id) leaves, of the current state
MarkResult(circuit_id) == mark_circuit_dead(PoolState, circuit_id)

\* C13: mark_circuit_dead(id) on a registered id leaves that circuit Dead and
\* absent from the active list, and a second call with the same id leaves
\* the pool exactly as the first call left it.
C13_MarkDeadIdempotent ==
    \A id \in Registry :
        LET first == MarkResult(id)
            second == mark_circuit_dead(first, id)
        IN  /\ first.circuits[id].state = DEAD
            /\ ~InList(id, first.active_circuits)
            /\ DOMAIN first.circuits = Registry
            /\ second.circuits = first.circuits
            /\ second.active_circuits = first.active_circuits

\* C13 witness: a circuit within its lifetime that is Dead and out of the
\* active list while a circuit created before it is alive and active: it was
\* marked dead by a call for its id.
C13_Witness ==
    \E marked \in Registry, alive \in Registry :
        /\ alive < marked
        /\ circuits[marked].state = DEAD
        /\ now - circuits[marked].created_at <= circuit_lifetime
        /\ ~InList(marked, active_circuits)
        /\ circuits[alive].state # DEAD
        /\ InList(alive, active_circuits)

\* the ids that were never handed out by the control channel
Unregistered == (1..(MaxIds + 1)) \ Registry

\* C14: mark_circuit_dead with an id that is not in the registry leaves the
\* registry, every circuit's fields and the active list as they are (the
\* call touches nothing else, the session cache included).
C14_MarkDeadUnknownNoOp ==
    \A id \in Unregistered :
        LET r == MarkResult(id)
        IN  /\ r.circuits = circuits
            /\ r.active_circuits = active_circuits

\* C14 witness: a pool with a live active circuit and a Dead one, and an id
\* that the control channel has not handed out.
C14_Witness ==
    /\ nextId \in Unregistered
    /\ nextId <= MaxIds
    /\ \E id \in Registry :
           circuits[id].state = DEAD /\ circuits[id].request_count > 0
    /\ \E i \in 1..Len(active_circuits) :
           circuits[active_circuits[i]].state = ACTIVE

\* C15: mark_circuit_dead(id) removes neither the registry record nor the
\* cached session of id, and the next get_http_session for that circuit does
\* not return the session handle that was cached before the circuit died.
C15_DeadCircuitSessionInvalidated ==
    \A id \in Registry \cap DOMAIN session_cache :
        LET m == MarkResult(id)
            l == LookupAfter([circuits |-> m.circuits,
                              active_circuits |-> m.active_circuits,
                              nextId |-> nextId,
                              session_cache |-> session_cache], id, FALSE)
        IN  /\ id \in DOMAIN m.circuits
            /\ m.circuits[id].state = DEAD
            /\ l.session # session_cache[id]

\* C16: when, after cleanup, the active list is empty and the creation of a
\* circuit fails or is not possible, get_circuit ends with its no-circuit
\* outcome (None, nothing raised, nothing created) and get_http_session
\* without a circuit fails with "No available circuits" instead of yielding
\* a session.
C16_ExhaustionFailsExplicitly ==
    \A require_fresh \in BOOLEAN, ok \in BOOLEAN :
        LET r == Outcome(require_fresh, ok)
            l == SessionOutcome(0, ok)
        IN  ( /\ Cleaned.active_circuits = <<>>
              /\ (~ok \/ controller # "connected" \/ max_circuits <= 0) )
            => /\ r.ret = 0
               /\ r.err = ""
               /\ r.nextId = nextId
               /\ DOMAIN r.circuits = Registry
               /\ r.active_circuits = <<>>
               /\ l.err = "RuntimeError"
               /\ l.session = 0
               /\ l.session_cache = session_cache

\* C17: a creation attempt inside get_circuit that fails adds nothing to the
\* registry or the active list and raises nothing, and with a non-empty
\* active list get_circuit goes on to recycle and returns a circuit of that
\* list.  The attempt is made when the scan finds no circuit and the active
\* list is shorter than max_circuits; it fails when the control connection
\* answers with stem.ControllerError.
C17_FailedCreationAbsorbed ==
    controller = "connected" =>
        \A require_fresh \in BOOLEAN :
            LET r == Outcome(require_fresh, FALSE)
                attempted ==
                    /\ ScanIndex(Cleaned.circuits, Cleaned.active_circuits,
                                 now, require_fresh) = 0
                    /\ Len(Cleaned.active_circuits) < max_circuits
            IN  attempted =>
                    /\ r.err = ""
                    /\ DOMAIN r.circuits = Registry
                    /\ r.active_circuits = Cleaned.active_circuits
                    /\ r.nextId = nextId
                    /\ Cleaned.active_circuits # <<>> =>
                           /\ r.path = "recycle"
                           /\ r.ret \in Registry
                           /\ InList(r.ret, Cleaned.active_circuits)
                    /\ Cleaned.active_circuits = <<>> => r.ret = 0

\* C17 witness: a pool with room for another circuit whose active circuits
\* are all past the request limit, one of them handed out again now.
C17_Witness ==
    /\ controller = "connected"
    /\ active_circuits # <<>>
    /\ Len(active_circuits) < max_circuits
    /\ \A i \in 1..Len(active_circuits) :
           /\ circuits[active_circuits[i]].state # DEAD
           /\ ~is_healthy(circuits[active_circuits[i]], now)
    /\ \E i \in 1..Len(active_circuits) :
           /\ circuits[active_circuits[i]].request_count > HEALTHY_MAX_REQUESTS + 1
           /\ circuits[active_circuits[i]].last_used = now
    /\ nextId <= MaxIds

\* C18: get_http_session(circuit) returns the session cached under
\* circuit.id when there is one, and otherwise creates a session, caches it
\* under circuit.id and returns it; a second lookup for the same id returns
\* the same handle, different ids have different handles, and the lookup
\* leaves the registry and the active list as they are.
C18_SessionPerCircuit ==
    /\ \A a \in DOMAIN session_cache, b \in DOMAIN session_cache :
           a # b => session_cache[a] # session_cache[b]
    /\ \A id \in Registry :
           LET l == SessionOutcome(id, FALSE)
               again == LookupAfter(l, id, FALSE)
           IN  /\ l.err = ""
               /\ id \in DOMAIN session_cache =>
                      /\ l.session = session_cache[id]
                      /\ l.session_cache = session_cache
               /\ id \notin DOMAIN session_cache =>
                      /\ l.session \notin Handles(session_cache)
                      /\ DOMAIN l.session_cache = DOMAIN session_cache \cup {id}
                      /\ \A k \in DOMAIN session_cache :
                             l.session_cache[k] = session_cache[k]
               /\ l.session_cache[id] = l.session
               /\ again.session = l.session
               /\ again.session_cache = l.session_cache
               /\ l.circuits = circuits
               /\ l.active_circuits = active_circuits
               /\ l.nextId = nextId

\* C18 witness: two circuits with a cached session each, the two handles
\* different.
C18_Witness ==
    \E a \in Registry, b \in Registry :
        /\ a # b
        /\ DOMAIN session_cache = {a, b}
        /\ session_cache[a] # session_cache[b]
        /\ circuits[a].state # DEAD

\* C19: after stop() the session cache is empty and the control connection
\* is detached, and a second stop() leaves everything as the first one
\* left it.
C19_StopIdempotent ==
    LET first == stop(session_cache, controller, tor_process)
        second == stop(first.session_cache, first.controller, first.tor_process)
    IN  /\ DOMAIN first.session_cache = {}
        /\ first.controller = "none"
        /\ second = first

\* C19 witness: a pool that launched its daemon, cached a session and was
\* stopped: no control connection, an empty cache, the circuits still there.
C19_Witness ==
    /\ controller = "none"
    /\ tor_process
    /\ DOMAIN session_cache = {}
    /\ nextSession > 1
    /\ active_circuits # <<>>

\* C20: get_stats reports total = number of registry records, active =
\* length of the active list, healthy = number of registry circuits that
\* are not Dead, not older than 600 s and not past the request limit of
\* is_healthy, and sessions cached = size of the session cache.
C20_StatsSnapshot ==
    /\ get_stats.total_circuits = Cardinality(Registry)
    /\ get_stats.active_circuits = Len(active_circuits)
    /\ get_stats.healthy_circuits =
           Cardinality({id \in Registry :
               SpecIsHealthy(circuits[id], now, HEALTHY_MAX_AGE,
                             HEALTHY_MAX_REQUESTS)})
    /\ get_stats.healthy_circuits <= get_stats.total_circuits
    /\ get_stats.sessions_cached = Cardinality(DOMAIN session_cache)

\* C20 witness: a pool whose four numbers differ: more records than active
\* circuits, more active circuits than healthy ones, and a cached session.
C20_Witness ==
    /\ get_stats.total_circuits > get_stats.active_circuits
    /\ get_stats.active_circuits > get_stats.healthy_circuits
    /\ get_stats.healthy_circuits >= 1
    /\ get_stats.sessions_cached >= 1

\* no thread is inside get_circuit
NoCallInFlight ==
    \A w \in DOMAIN workers : workers[w].pc \in {"ready", "done"}

\* C21: get_circuit, mark_circuit_dead, rotate_all_circuits and cleanup are
\* atomic with respect to one another, so when mark_circuit_dead or
\* rotate_all_circuits has run next to a get_circuit call in flight and every
\* call has returned, the pool is as some serial order leaves it: no circuit
\* has a state other than Dead while it is outside the active list, and no
\* caller holds a circuit that is Dead.
C21_CallsAtomic ==
    NoCallInFlight =>
        /\ \A id \in Registry :
               circuits[id].state # DEAD => InList(id, active_circuits)
        /\ \A i \in 1..Len(active_circuits) :
               circuits[active_circuits[i]].state # DEAD

\* every thread's get_circuit call has returned or raised
AllDone == \A w \in Workers : workers[w].pc = "done"

\* C22: when several threads have run get_circuit at once on a pool started
\* once, each finding no eligible circuit and the active list below
\* max_circuits, and all calls have returned, the active list holds no more
\* than max_circuits circuits: a thread that has created a circuit looks at
\* the capacity again before it appends it.
C22_CreationRevalidatesCapacity ==
    AllDone => Len(active_circuits) <= max_circuits

\* the circuits of the cleaned pool cl that the scan may return: active,
\* healthy and, with require_fresh, never handed out
Eligible(cl, require_fresh) ==
    {id \in DOMAIN cl.circuits :
        /\ InList(id, cl.active_circuits)
        /\ is_healthy(cl.circuits[id], now)
        /\ require_fresh => cl.circuits[id].request_count = 0}

\* C23: when, after cleanup, at least one active circuit is healthy (and,
\* with require_fresh, has request_count 0), get_circuit returns the
\* earliest-created such circuit (ids are handed out in creation order),
\* creates no circuit, and leaves the returned circuit in state Active.
C23_ScanReturnsEarliestEligible ==
    LET cl == Cleaned
    IN  \A require_fresh \in BOOLEAN :
            LET E == Eligible(cl, require_fresh)
            IN  E # {} =>
                    \A ok \in BOOLEAN :
                        LET r == Outcome(require_fresh, ok)
                        IN  /\ r.err = ""
                            /\ r.ret \in E
                            /\ \A other \in E :
                                   /\ r.ret <= other
                                   /\ circuits[r.ret].created_at
                                          <= circuits[other].created_at
                            /\ r.nextId = nextId
                            /\ DOMAIN r.circuits = Registry
                            /\ r.active_circuits = cl.active_circuits
                            /\ r.circuits[r.ret].state = ACTIVE

\* C23 witness: the scan has passed over the first circuit of the active
\* list, which is alive and past the request limit, and has handed out for
\* the first time a circuit created later, now Active.
C23_Witness ==
    \E i \in 1..Len(active_circuits), j \in 1..Len(active_circuits) :
        /\ i < j
        /\ circuits[active_circuits[i]].state # DEAD
        /\ ~is_healthy(circuits[active_circuits[i]], now)
        /\ circuits[active_circuits[j]].state = ACTIVE
        /\ circuits[active_circuits[j]].request_count = 1
        /\ circuits[active_circuits[j]].last_used = now
        /\ nextId = Cardinality(Registry) + 1

\* get_circuit(require_fresh) falls back to recycling on the cleaned pool
\* cl: the scan finds no circuit, no circuit is created (no room, or the
\* attempt fails) and the active list is not empty
Recycles(cl, require_fresh, ok) ==
    /\ Eligible(cl, require_fresh) = {}
    /\ cl.active_circuits # <<>>
    /\ \/ Len(cl.active_circuits) >= max_circuits
       \/ controller = "connected" /\ ~ok

\* when a circuit was last handed out, a circuit never handed out counting
\* as earlier than any other
LastUse(c) == IF c.last_used = None THEN -1 ELSE c.last_used

\* C24: when get_circuit falls back to recycling, the circuit it returns is
\* an active circuit with the least recent last_used, one that was never
\* used counting as older than any used one, and among the circuits tied on
\* last_used it has the earliest created_at.
C24_RecycleLeastRecentlyUsed ==
    LET cl == Cleaned
    IN  \A require_fresh \in BOOLEAN, ok \in BOOLEAN :
            Recycles(cl, require_fresh, ok) =>
                LET r == Outcome(require_fresh, ok)
                    c == cl.circuits[r.ret]
                IN  /\ r.err = ""
                    /\ InList(r.ret, cl.active_circuits)
                    /\ \A i \in 1..Len(cl.active_circuits) :
                           LET other == cl.circuits[cl.active_circuits[i]]
                           IN  /\ LastUse(c) <= LastUse(other)
                               /\ LastUse(c) = LastUse(other)
                                      => c.created_at <= other.created_at

\* C24 witness: a circuit that had never been used was recycled now, past
\* the age of health and within its lifetime, in preference to a circuit
\* created no later that had been used before.
C24_Witness ==
    \E i \in 1..Len(active_circuits), j \in 1..Len(active_circuits) :
        LET used == circuits[active_circuits[i]]
            c == circuits[active_circuits[j]]
        IN  /\ i < j
            /\ used.last_used # None
            /\ used.last_used < now
            /\ c.request_count = 1
            /\ c.last_used = now
            /\ c.state = FRESH
            /\ now - c.created_at > HEALTHY_MAX_AGE
            /\ Len(active_circuits) >= max_circuits

\* C25: a circuit in state Fresh has never been allocated, that is its
\* request_count is 0 and it has no last_used, and a circuit that get_circuit
\* returns is not Fresh when it is returned (so no circuit is handed out
\* while Fresh and goes from Fresh to Degraded at a later cleanup).
C25_FreshNeverAllocated ==
    /\ \A id \in Registry :
           circuits[id].state = FRESH =>
               /\ circuits[id].request_count = 0
               /\ circuits[id].last_used = None
    /\ \A require_fresh \in BOOLEAN, ok \in BOOLEAN :
           LET r == Outcome(require_fresh, ok)
           IN  r.ret # 0 => r.circuits[r.ret].state # FRESH

\* C26: get_circuit(require_fresh=True) only returns a circuit that had
\* never been allocated before the call: the circuit had request_count 0
\* before the call (or did not exist) and has request_count 1 on return,
\* whichever of the scan, the creation and the recycling produced it.
C26_RequireFreshNeverAllocated ==
    \A ok \in BOOLEAN :
        LET r == Outcome(TRUE, ok)
        IN  r.ret # 0 =>
                /\ r.circuits[r.ret].request_count = 1
                /\ r.ret \in Registry => circuits[r.ret].request_count = 0

\* C27: get_circuit never returns a circuit whose age at the time of the
\* call exceeds circuit_lifetime: the cleanup at the start of the call has
\* put every such circuit out of the active list, and the scan, the creation
\* and the recycling hand out circuits of that list only.
C27_ReturnedWithinLifetime ==
    \A require_fresh \in BOOLEAN, ok \in BOOLEAN :
        LET r == Outcome(require_fresh, ok)
        IN  r.ret # 0 =>
                /\ now - r.circuits[r.ret].created_at <= circuit_lifetime
                /\ \A id \in Registry :
                       now - circuits[id].created_at > circuit_lifetime
                           => /\ id # r.ret
                              /\ ~InList(id, r.active_circuits)

\* C27 witness: a circuit that was in use is past circuit_lifetime, Dead and
\* out of the active list, and the call that purged it has handed out a
\* circuit created now instead.
C27_Witness ==
    /\ \E id \in Registry :
           /\ now - circuits[id].created_at > circuit_lifetime
           /\ circuits[id].request_count > 0
           /\ circuits[id].state = DEAD
           /\ ~InList(id, active_circuits)
    /\ \E i \in 1..Len(active_circuits) :
           /\ circuits[active_circuits[i]].created_at = now
           /\ circuits[active_circuits[i]].last_used = now

\* C28: between two calls the active list holds no id twice, every id in it
\* is a key of the registry, and a circuit of the registry is in the active
\* list exactly when its state is not Dead.
C28_ActiveListConsistent ==
    /\ \A i \in 1..Len(active_circuits), j \in 1..Len(active_circuits) :
           i # j => active_circuits[i] # active_circuits[j]
    /\ \A i \in 1..Len(active_circuits) : active_circuits[i] \in Registry
    /\ \A id \in Registry :
           InList(id, active_circuits) <=> circuits[id].state # DEAD

\* C28 witness: a registry with an expired circuit purged by cleanup, a
\* circuit marked dead within its lifetime, and a Degraded circuit in the
\* active list.
C28_Witness ==
    /\ \E id \in Registry :
           /\ circuits[id].state = DEAD
           /\ now - circuits[id].created_at > circuit_lifetime
    /\ \E id \in Registry :
           /\ circuits[id].state = DEAD
           /\ now - circuits[id].created_at <= circuit_lifetime
    /\ \E i \in 1..Len(active_circuits) :
           circuits[active_circuits[i]].state = DEGRADED

\* what a caller of get_http_session() gets on the current pool if the
\* control connection were ctl, the capacity maxc and a creation attempt
\* ended as ok says: the circuit get_circuit returned (0 for None) and the
\* exception raised ("" for none)
AcquireOutcome(ctl, maxc, ok) ==
    LET l == get_http_session([PoolState EXCEPT !.controller = ctl],
                              session_cache, nextSession, maxc,
                              circuit_lifetime, now, 0, ok)
    IN  [circuit |-> l.circuit, err |-> l.err]

\* C29: with no active circuit left after cleanup, the three failure
\* situations of acquisition end in three different errors and none in a
\* returned circuit: a pool with no capacity left (exhausted), a control
\* channel that is down (the creation attempt fails) and a pool that was
\* never started (no control connection).
C29_DistinctErrors ==
    Cleaned.active_circuits = <<>> =>
        LET exhausted == AcquireOutcome("connected", 0, TRUE)
            channelDown == AcquireOutcome("connected", max_circuits, FALSE)
            notStarted == AcquireOutcome("none", max_circuits, TRUE)
        IN  /\ exhausted.circuit = 0 /\ exhausted.err # ""
            /\ channelDown.circuit = 0 /\ channelDown.err # ""
            /\ notStarted.circuit = 0 /\ notStarted.err # ""
            /\ exhausted.err # channelDown.err
            /\ exhausted.err # notStarted.err
            /\ channelDown.err # notStarted.err

\* C30: while the pool is stopped (no control connection, until start() is
\* called again) get_circuit returns no circuit and get_http_session, with
\* a circuit or without one, yields no session.
C30_StoppedPoolHandsOutNothing ==
    controller = "none" =>
        /\ \A require_fresh \in BOOLEAN, ok \in BOOLEAN :
               Outcome(require_fresh, ok).ret = 0
        /\ \A circuit_id \in Registry \cup {0} :
               SessionOutcome(circuit_id, FALSE).session = 0

\* C31: rotate_all_circuits clears the records of the circuits it retires:
\* when it returns, the registry, and so the total get_stats reports, holds
\* only the circuits created by that rotation.
C31_RotationClearsRecords ==
    \A oks \in AttemptOutcomes :
        LET r == RotateResult(oks)
        IN  r.err = "" =>
                /\ DOMAIN r.circuits \cap Registry = {}
                /\ Cardinality(DOMAIN r.circuits) = Len(r.active_circuits)
                /\ \A id \in DOMAIN r.circuits : r.circuits[id].created_at = now

\* C32: cleanup changes nothing but circuit states and active-list
\* membership: the registry keeps exactly its records, every circuit keeps
\* its request_count, last_used and created_at, a state changes only to Dead
\* (expired) or to Degraded (past the request limit), the active list keeps
\* its order and loses only ids whose circuit is Dead when cleanup has
\* finished, and every id that stays belongs to a circuit that is not Dead.
\* (cleanup_circuits reads and yields the registry and the active list only:
\* it has no access to the control channel or to the session cache.)
C32_CleanupFrame ==
    LET cl == Cleaned
        stays(id) == cl.circuits[id].state # DEAD
    IN  /\ DOMAIN cl.circuits = Registry
        /\ \A id \in Registry :
               /\ cl.circuits[id].request_count = circuits[id].request_count
               /\ cl.circuits[id].last_used = circuits[id].last_used
               /\ cl.circuits[id].created_at = circuits[id].created_at
               /\ \/ cl.circuits[id].state = circuits[id].state
                  \/ /\ cl.circuits[id].state = DEAD
                     /\ now - circuits[id].created_at > circuit_lifetime
                  \/ /\ cl.circuits[id].state = DEGRADED
                     /\ circuits[id].request_count > CLEANUP_MAX_REQUESTS
        /\ cl.active_circuits = SelectSeq(active_circuits, stays)

\* C32 witness: cleanup has purged an expired circuit that had been handed
\* out, which keeps its request_count and last_used as a Dead record, and
\* has left a Degraded circuit in the active list.
C32_Witness ==
    /\ Cleaned.circuits = circuits
    /\ Cleaned.active_circuits = active_circuits
    /\ \E id \in Registry :
           /\ circuits[id].state = DEAD
           /\ now - circuits[id].created_at > circuit_lifetime
           /\ circuits[id].request_count > 0
           /\ circuits[id].last_used # None
           /\ circuits[id].last_used < now
    /\ \E i \in 1..Len(active_circuits) :
           /\ circuits[active_circuits[i]].state = DEGRADED
           /\ circuits[active_circuits[i]].request_count > CLEANUP_MAX_REQUESTS

====
